---- MODULE Spec2Model ----
(***************************************************************************)
(* Model of src/calibrator.h: the class template Calibrator<Numeric>, a    *)
(* piecewise-linear calibration over a borrowed table of (raw, calibrated) *)
(* points.                                                                 *)
(*                                                                         *)
(* A Numeric value is a pair <<n, d>>.  With d > 0 it is the number n/d in *)
(* lowest terms; d = 0 encodes the IEEE-754 specials of a floating-point   *)
(* instantiation: <<1,0>> is +inf, <<-1,0>> is -inf and <<0,0>> is NaN.    *)
(* An integer instantiation only ever holds pairs <<n, 1>>.  The finite    *)
(* arithmetic of the floating-point instantiation is modelled without      *)
(* rounding and without a signed zero; its specials follow IEEE-754.       *)
(***************************************************************************)
EXTENDS Integers, Sequences, FiniteSets, TLC

(* ------------------------------ bounds -------------------------------- *)

\* Largest table length (numPoints) the model constructs.
MaxPoints == 4

\* Largest number of successful begin() calls in one run (each allocates).
MaxFits == 2

\* The values the caller puts in the raw and in the calibrated table, and the
\* inputs it calibrates: finite numbers.  The specials of the floating-point
\* instantiation arise from its arithmetic only.
RawInts == {0, 1, 2}
CalibratedInts == {0, 1}
InputInts == {-1, 0, 1, 2, 3}

\* What an undefined operation (an integer division by zero, a read through an
\* indeterminate pointer) can produce when it does not trap.
IndeterminateInts == {0, -1}

(* ------------------------- the Numeric type --------------------------- *)

\* A uint32_t (_numPoints, the loop counters) is held as the integer with the
\* same 32 bits in two's complement, so 0 - 1 is -1, the bits of 2^32 - 1.
\* ULt is operator< of uint32_t on that representation.
ULt(a, b) == IF (a < 0) = (b < 0) THEN a < b ELSE b < 0

Abs(x) == IF x < 0 THEN -x ELSE x

Sgn(x) == IF x < 0 THEN -1 ELSE IF x > 0 THEN 1 ELSE 0

RECURSIVE GCD(_, _)
GCD(a, b) == IF b = 0 THEN a ELSE GCD(b, a % b)

\* C++ integer division truncates toward zero.
TruncDiv(a, b) == Sgn(a) * Sgn(b) * (Abs(a) \div Abs(b))

Num(n) == <<n, 1>>
NaN == <<0, 0>>
PosInf == <<1, 0>>
NegInf == <<-1, 0>>

IsNaN(a) == a = NaN
IsInf(a) == a[2] = 0 /\ a[1] # 0

\* n/d as a Numeric of the floating-point instantiation.
Norm(n, d) ==
    IF d = 0 THEN <<Sgn(n), 0>>
    ELSE LET s == Sgn(d)
             g == GCD(Abs(n), Abs(d))
         IN  <<(s * n) \div g, (s * d) \div g>>

FAdd(a, b) ==
    IF IsNaN(a) \/ IsNaN(b) THEN NaN
    ELSE IF IsInf(a) /\ IsInf(b) THEN (IF a = b THEN a ELSE NaN)
    ELSE IF IsInf(a) THEN a
    ELSE IF IsInf(b) THEN b
    ELSE Norm(a[1] * b[2] + b[1] * a[2], a[2] * b[2])

FNeg(a) == <<-a[1], a[2]>>

FSub(a, b) == FAdd(a, FNeg(b))

\* inf * 0 is NaN: the product of the numerators is 0 over a 0 denominator.
FMul(a, b) == Norm(a[1] * b[1], a[2] * b[2])

\* x/0 is +-inf, 0/0 and inf/inf are NaN, x/inf is 0.
FDiv(a, b) ==
    IF IsNaN(a) \/ IsNaN(b) THEN NaN
    ELSE Norm(a[1] * b[2] * Sgn(IF b[1] = 0 THEN 1 ELSE b[1]), a[2] * Abs(b[1]))

\* operator< of Numeric; every comparison with NaN is false.
Lt(a, b) ==
    IF IsNaN(a) \/ IsNaN(b) THEN FALSE
    ELSE IF a = b THEN FALSE
    ELSE IF a = NegInf \/ b = PosInf THEN TRUE
    ELSE IF a = PosInf \/ b = NegInf THEN FALSE
    ELSE a[1] * b[2] < b[1] * a[2]

Gt(a, b) == Lt(b, a)

Le(a, b) == ~IsNaN(a) /\ ~IsNaN(b) /\ ~Lt(b, a)

Ge(a, b) == Le(b, a)

\* operator== of Numeric.
NumEq(a, b) == ~IsNaN(a) /\ ~IsNaN(b) /\ a = b

\* The arithmetic of the instantiation t ("int" or "float").  The integer
\* results of the model stay far inside the range of int, where the signed
\* operations are exact.
Add(t, a, b) == IF t = "float" THEN FAdd(a, b) ELSE Num(a[1] + b[1])

Sub(t, a, b) == IF t = "float" THEN FSub(a, b) ELSE Num(a[1] - b[1])

Mul(t, a, b) == IF t = "float" THEN FMul(a, b) ELSE Num(a[1] * b[1])

\* An integer division by zero is undefined: z is what it leaves when it returns.
Div(t, a, b, z) ==
    IF t = "float" THEN FDiv(a, b)
    ELSE IF b[1] = 0 THEN z
    ELSE Num(TruncDiv(a[1], b[1]))

(* ------------------------------ state --------------------------------- *)

VARIABLES
    numeric,            \* the template argument Numeric: "int" or "float"
    rawValues,          \* the caller's array behind _rawValues
    calibrationValues,  \* the caller's array behind _calibrationValues
    numPoints,          \* _numPoints
    limitOutput,        \* _limitOutput
    _m,                 \* _m: <<>> while never assigned, <<k>> once it points to block k
    _b,                 \* _b: likewise
    heap,               \* the blocks obtained from new[] and not deleted, in order
    status,             \* "ok", or "trapped" once undefined behaviour ended the program
    written,            \* the caller has overwritten a table element
    stale,              \* a table element changed after the coefficients were computed
    op,                 \* the last call: "new", "begin", "calibrate" or "write"
    ok,                 \* what the last begin() returned
    oob,                \* the last begin() read _rawValues outside 0..numPoints-1
    arg,                \* the argument of the last calibrate()
    out,                \* what the last calibrate() returned
    path,               \* the return statement the last calibrate() left by
    seg                 \* the segment index it applied, -1 when none

vars == <<numeric, rawValues, calibrationValues, numPoints, limitOutput, _m, _b,
          heap, status, written, stale, op, ok, oob, arg, out, path, seg>>

object == <<numeric, rawValues, calibrationValues, numPoints, limitOutput, _m, _b,
            heap, written, stale>>

Numerics == {"int", "float"}

RawVals == {Num(v) : v \in RawInts}

CalibratedVals == {Num(v) : v \in CalibratedInts}

InputVals == {Num(v) : v \in InputInts}

\* Calibrator(rawValues, calibrationValues, numPoints, limitOutputToCalibrationRange):
\* records its four arguments and leaves _m and _b unassigned.
Init ==
    /\ numeric \in Numerics
    /\ numPoints \in 0..MaxPoints
    /\ rawValues \in [1..numPoints -> RawVals]
    /\ calibrationValues \in [1..numPoints -> CalibratedVals]
    /\ limitOutput \in BOOLEAN
    /\ _m = <<>>
    /\ _b = <<>>
    /\ heap = <<>>
    /\ status = "ok"
    /\ written = FALSE
    /\ stale = FALSE
    /\ op = "new"
    /\ ok = FALSE
    /\ oob = FALSE
    /\ arg = Num(0)
    /\ out = Num(0)
    /\ path = "none"
    /\ seg = -1

(* ------------------------------ begin() ------------------------------- *)

\* The bound of both loops of begin() and of the scan of calibrate():
\* _numPoints - 1 in uint32_t.
LoopBound == numPoints - 1

\* The sortedness loop stopping one pair early.
InversionsButLast ==
    {i \in 0..(numPoints - 3) : Gt(rawValues[i + 1], rawValues[i + 2])}

\* The C indices i the sortedness loop visits inside the table, up to its
\* first return.
Inversions == {i \in 0..(numPoints - 2) : Gt(rawValues[i + 1], rawValues[i + 2])}

\* The sortedness loop runs past the table: with _numPoints = 0 its bound is
\* 2^32 - 1 and its first iteration reads _rawValues[0] and _rawValues[1].
ScanLeavesTable == ULt(0, LoopBound) /\ numPoints < 2

\* The call returned (or trapped) after the calls' common bookkeeping.
Called(name, result, outside) ==
    /\ op' = name
    /\ ok' = result
    /\ oob' = outside
    /\ arg' = Num(0)
    /\ out' = Num(0)
    /\ path' = "none"
    /\ seg' = -1

\* Lines 33-40 with _numPoints = 0: the reads are outside the table, so what
\* they see is indeterminate.  Either some pair looks inverted and begin()
\* returns false (as line 44 would after a full scan), or a read traps.
BeginOutOfBounds ==
    /\ status = "ok"
    /\ ScanLeavesTable
    /\ \E trap \in BOOLEAN :
          status' = IF trap THEN "trapped" ELSE "ok"
    /\ Called("begin", FALSE, TRUE)
    /\ UNCHANGED object

\* A begin() that drops the coefficients of the earlier fit when it fails.
BeginUnsortedForgets ==
    /\ status = "ok"
    /\ ~ScanLeavesTable
    /\ Inversions # {}
    /\ _m' = <<>>
    /\ _b' = <<>>
    /\ Called("begin", FALSE, FALSE)
    /\ UNCHANGED <<numeric, rawValues, calibrationValues, numPoints, limitOutput,
                   heap, written, stale, status>>

\* Lines 33-40: an adjacent pair is inverted.
BeginUnsorted ==
    /\ status = "ok"
    /\ ~ScanLeavesTable
    /\ Inversions # {}
    /\ Called("begin", FALSE, FALSE)
    /\ UNCHANGED <<object, status>>

\* Lines 43-44: fewer than two points.
BeginTooFew ==
    /\ status = "ok"
    /\ ~ScanLeavesTable
    /\ Inversions = {}
    /\ numPoints <= 1
    /\ Called("begin", FALSE, FALSE)
    /\ UNCHANGED <<object, status>>

\* Line 53.
Slope(i, z) ==
    Div(numeric,
        Sub(numeric, calibrationValues[i + 2], calibrationValues[i + 1]),
        Sub(numeric, rawValues[i + 2], rawValues[i + 1]),
        z)

\* Line 54.
Intercept(i, z) ==
    Sub(numeric, calibrationValues[i + 1], Mul(numeric, Slope(i, z), rawValues[i + 1]))

\* The integer instantiation divides by zero at line 53.
DividesByZero ==
    /\ numeric = "int"
    /\ \E i \in 0..(numPoints - 2) : rawValues[i + 2] = rawValues[i + 1]

CanFit ==
    /\ status = "ok"
    /\ ~ScanLeavesTable
    /\ Inversions = {}
    /\ numPoints > 1
    /\ Len(heap) < 2 * MaxFits

\* Lines 47-48: two fresh arrays; nothing is deleted.
Allocate(ms, bs) ==
    /\ heap' = heap \o <<ms, bs>>
    /\ _m' = <<Len(heap) + 1>>
    /\ _b' = <<Len(heap) + 2>>

\* Lines 46-57: allocate and fill the coefficient arrays.
BeginFit ==
    /\ CanFit
    /\ \E z \in {Num(v) : v \in IndeterminateInts} :
          Allocate([i \in 1..(numPoints - 1) |-> Slope(i - 1, z)],
                   [i \in 1..(numPoints - 1) |-> Intercept(i - 1, z)])
    /\ stale' = FALSE
    /\ Called("begin", TRUE, FALSE)
    /\ UNCHANGED <<numeric, rawValues, calibrationValues, numPoints, limitOutput,
                   status, written>>

\* Line 53 in the integer instantiation with two equal adjacent raw values:
\* the division by zero traps.
BeginFitTrap ==
    /\ CanFit
    /\ DividesByZero
    /\ status' = "trapped"
    /\ Called("begin", FALSE, FALSE)
    /\ UNCHANGED object

Begin == BeginOutOfBounds \/ BeginUnsorted \/ BeginTooFew \/ BeginFit \/ BeginFitTrap

(* ----------------------------- calibrate() ---------------------------- *)

Indeterminate == {Num(v) : v \in IndeterminateInts}

\* _m[i] and _b[i] for a C index i, once begin() has assigned the pointers.
M(i) == heap[_m[1]][i + 1]

B(i) == heap[_b[1]][i + 1]

\* The calibration function of segment i: _m[i] * rawValue + _b[i].
Line(i, x) == Add(numeric, Mul(numeric, M(i), x), B(i))

\* The scan with the lower end of each segment excluded.
HoldingOpenBelow(x) ==
    {i \in 0..(numPoints - 2) :
        ULt(i, LoopBound) /\ Gt(x, rawValues[i + 1]) /\ Le(x, rawValues[i + 2])}

\* Line 94: the segments whose closed interval holds x.
Holding(x) ==
    {i \in 0..(numPoints - 2) :
        ULt(i, LoopBound) /\ Ge(x, rawValues[i + 1]) /\ Le(x, rawValues[i + 2])}

Lowest(S) == CHOOSE i \in S : \A j \in S : i <= j

\* Lines 74-81: the input is below the first raw value.
Below(x) ==
    IF limitOutput
    THEN [ret |-> calibrationValues[1], by |-> "clampLow", use |-> -1]
    ELSE [ret |-> Line(0, x), by |-> "extrapolateLow", use |-> 0]

\* The upper clamp returning the calibrated value before the last.
AboveClampsEarly(x) ==
    IF limitOutput
    THEN [ret |-> calibrationValues[numPoints - 1], by |-> "clampHigh", use |-> -1]
    ELSE [ret |-> Line(numPoints - 2, x), by |-> "extrapolateHigh",
          use |-> numPoints - 2]

\* The upper extrapolation applying the first segment's line.
AboveUsesFirst(x) ==
    IF limitOutput
    THEN [ret |-> calibrationValues[numPoints], by |-> "clampHigh", use |-> -1]
    ELSE [ret |-> Line(0, x), by |-> "extrapolateHigh", use |-> 0]

\* Lines 82-89: the input is above the last raw value.
Above(x) ==
    IF limitOutput
    THEN [ret |-> calibrationValues[numPoints], by |-> "clampHigh", use |-> -1]
    ELSE [ret |-> Line(numPoints - 2, x), by |-> "extrapolateHigh",
          use |-> numPoints - 2]

\* Lines 91-102: the scan for the first segment that holds the input, and the
\* return of the input itself when there is none.
Inside(x) ==
    IF Holding(x) # {}
    THEN [ret |-> Line(Lowest(Holding(x)), x), by |-> "segment",
          use |-> Lowest(Holding(x))]
    ELSE [ret |-> x, by |-> "fallback", use |-> -1]

\* Lines 73-102, with _m and _b assigned: the value returned, the return
\* statement reached and the segment applied.
calibrate(x) ==
    IF Lt(x, rawValues[1]) THEN Below(x)
    ELSE IF Gt(x, rawValues[numPoints]) THEN Above(x)
    ELSE Inside(x)

Returned(x, r) ==
    /\ op' = "calibrate"
    /\ arg' = x
    /\ out' = r.ret
    /\ path' = r.by
    /\ seg' = r.use
    /\ ok' = FALSE
    /\ oob' = FALSE

\* Lines 70-71 before any successful begin(): _m and _b were never assigned,
\* so the comparison reads indeterminate pointers.  Here one of them compares
\* equal to nullptr and the input is returned.
CalibrateUnassignedNull(x) ==
    /\ status = "ok"
    /\ _m = <<>>
    /\ Returned(x, [ret |-> x, by |-> "identity", use |-> -1])
    /\ UNCHANGED <<object, status>>

\* Lines 70-102 before any successful begin(), neither pointer comparing
\* equal to nullptr: the coefficients are read through indeterminate pointers
\* and the value returned is indeterminate.
CalibrateUnassignedWild(x) ==
    /\ status = "ok"
    /\ _m = <<>>
    /\ \E g \in Indeterminate :
          Returned(x, [ret |-> g, by |-> "wild", use |-> -1])
    /\ UNCHANGED <<object, status>>

\* The same, the read through the indeterminate pointer trapping.
CalibrateUnassignedTrap(x) ==
    /\ status = "ok"
    /\ _m = <<>>
    /\ status' = "trapped"
    /\ Returned(x, [ret |-> x, by |-> "none", use |-> -1])
    /\ UNCHANGED object

\* Lines 66-103 after a successful begin().
CalibrateFitted(x) ==
    /\ status = "ok"
    /\ _m # <<>>
    /\ Returned(x, calibrate(x))
    /\ UNCHANGED <<object, status>>

Calibrate(x) ==
    \/ CalibrateUnassignedNull(x)
    \/ CalibrateUnassignedWild(x)
    \/ CalibrateUnassignedTrap(x)
    \/ CalibrateFitted(x)

(* ------------------------------ the caller ---------------------------- *)

\* The tables are borrowed (lines 19-20, 106-107): the caller can store into
\* them behind the calibrator's back.  One store into the raw table is
\* modelled, between the first fit and the next; a store before the first fit
\* is the construction with the other table.
CallerWrite(i, v) ==
    /\ status = "ok"
    /\ _m = <<1>>
    /\ ~written
    /\ v # rawValues[i]
    /\ rawValues' = [rawValues EXCEPT ![i] = v]
    /\ written' = TRUE
    /\ stale' = TRUE
    /\ Called("write", FALSE, FALSE)
    /\ UNCHANGED <<numeric, calibrationValues, numPoints, limitOutput, _m, _b, heap,
                   status>>

Next ==
    \/ BeginOutOfBounds
    \/ BeginUnsorted
    \/ BeginTooFew
    \/ BeginFit
    \/ BeginFitTrap
    \/ \E x \in InputVals : CalibrateUnassignedNull(x)
    \/ \E x \in InputVals : CalibrateUnassignedWild(x)
    \/ \E x \in InputVals : CalibrateUnassignedTrap(x)
    \/ \E x \in InputVals : CalibrateFitted(x)
    \/ \E i \in 1..numPoints : \E v \in RawVals : CallerWrite(i, v)

Spec == Init /\ [][Next]_vars

(* ------------------------------ properties ---------------------------- *)

\* A successful begin() has assigned _m and _b (nothing else assigns them).
Fitted == _m # <<>>

CalibrateReturned == op = "calibrate" /\ status = "ok"

BeginReturned == op = "begin" /\ status = "ok"

\* The table indices, as C indices.
Knots == 0..(numPoints - 1)

Raw(i) == rawValues[i + 1]

Calibrated(i) == calibrationValues[i + 1]

HasInversion == \E i \in 0..(numPoints - 2) : Gt(Raw(i), Raw(i + 1))

StrictlyIncreasing == \A i \in 0..(numPoints - 2) : Lt(Raw(i), Raw(i + 1))

\* C1 (for its tables whose raw values are strictly increasing): on a table of
\* N >= 2 points begin() returns true, and afterwards calibrate(raw[i]) equals
\* calibrated[i] at every table index i, whatever the arithmetic type.
C1_ExactAtKnots ==
    (numPoints >= 2 /\ StrictlyIncreasing /\ ~stale) =>
        /\ BeginReturned => ok
        /\ (CalibrateReturned /\ Fitted) =>
               \A i \in Knots : NumEq(arg, Raw(i)) => NumEq(out, Calibrated(i))

\* C2: with numPoints <= 1, begin() returns false having read no table
\* element outside 0..numPoints-1 and having allocated nothing, and calibrate
\* returns its input.
C2_TooFewPoints ==
    numPoints <= 1 =>
        /\ op = "begin" => (status = "ok" /\ ~ok /\ ~oob /\ heap = <<>>)
        /\ op = "calibrate" => (status = "ok" /\ NumEq(out, arg))

\* C3: a begin() on a table with an adjacent inversion raw[i] > raw[i+1], at
\* any index, returns false and neither computes nor stores a coefficient.
C3_InversionRejected ==
    [][(op' = "begin" /\ HasInversion) =>
          (status' = "ok" /\ ~ok' /\ UNCHANGED <<_m, _b, heap>>)]_vars

\* C3's case: begin() returned false on three points whose only inversion is
\* the last pair.
C3_Witness ==
    /\ BeginReturned
    /\ ~ok
    /\ numPoints = 3
    /\ Le(Raw(0), Raw(1))
    /\ Gt(Raw(1), Raw(2))

\* C4: while no begin() has succeeded, calibrate(x) returns x and reads no
\* coefficient.
C4_UnfittedIdentity ==
    (op = "calibrate" /\ ~Fitted) =>
        (status = "ok" /\ NumEq(out, arg) /\ path = "identity")

\* C5: after any number of successful begin() calls exactly one slope array
\* and one intercept array, of N-1 entries each, are allocated, and both are
\* the ones the calibrator references.
C5_NoLeak ==
    Fitted =>
        /\ \A k \in 1..Len(heap) : _m = <<k>> \/ _b = <<k>>
        /\ Len(heap[_m[1]]) = numPoints - 1
        /\ Len(heap[_b[1]]) = numPoints - 1

\* C6: with the limit flag set, a fitted calibrator returns exactly
\* calibrated[0] for an input below raw[0] and exactly calibrated[N-1] for an
\* input above raw[N-1], whatever the coefficients are.  (After the caller has
\* unsorted the table an input can be both; the code tests "below" first.)
C6_Clamp ==
    (CalibrateReturned /\ Fitted /\ limitOutput) =>
        /\ Lt(arg, Raw(0)) => out = Calibrated(0)
        /\ (Gt(arg, Raw(numPoints - 1)) /\ (stale => ~Lt(arg, Raw(0)))) =>
               out = Calibrated(numPoints - 1)

\* C6's case: an input above a three-point table was clamped to a value the
\* last segment's line does not give.
C6_Witness ==
    /\ CalibrateReturned
    /\ Fitted
    /\ limitOutput
    /\ numPoints = 3
    /\ Gt(arg, Raw(2))
    /\ out = Calibrated(2)
    /\ out # Calibrated(1)
    /\ Line(1, arg) # out

\* C7: with the limit flag clear, a fitted calibrator returns m[0]*x + b[0]
\* for an input below raw[0] and m[N-2]*x + b[N-2] for an input above
\* raw[N-1], and applies no other segment to an input outside the range.
C7_Extrapolate ==
    (CalibrateReturned /\ Fitted /\ ~limitOutput) =>
        /\ Lt(arg, Raw(0)) => (out = Line(0, arg) /\ seg = 0)
        /\ (Gt(arg, Raw(numPoints - 1)) /\ (stale => ~Lt(arg, Raw(0)))) =>
               (out = Line(numPoints - 2, arg) /\ seg = numPoints - 2)

\* C7's case: an input above a three-point table was extrapolated along the
\* last segment's line, which differs there from the first segment's.
C7_Witness ==
    /\ CalibrateReturned
    /\ Fitted
    /\ ~limitOutput
    /\ numPoints = 3
    /\ Gt(arg, Raw(2))
    /\ seg = 1
    /\ out = Line(1, arg)
    /\ Line(0, arg) # out

\* C8: with the limit flag set, every value a fitted calibrator returns lies
\* between the smallest and the largest calibrated value of the table.
C8_WithinRange ==
    (CalibrateReturned /\ Fitted /\ limitOutput /\ ~stale) =>
        /\ \E i \in Knots : Le(Calibrated(i), out)
        /\ \E i \in Knots : Le(out, Calibrated(i))

\* The segments whose closed interval holds the input of the last call.
HoldingArg == {i \in 0..(numPoints - 2) : Le(Raw(i), arg) /\ Le(arg, Raw(i + 1))}

InRange == Le(Raw(0), arg) /\ Le(arg, Raw(numPoints - 1))

\* C9 as claimed: for a fitted calibrator and an input in [raw[0], raw[N-1]],
\* a segment holding the input exists, the smallest such segment's line is
\* returned, an input equal to an interior knot raw[k] uses segment k-1, and
\* the final fallback is never reached.
C9_AsClaimed ==
    (CalibrateReturned /\ Fitted /\ InRange) =>
        /\ HoldingArg # {}
        /\ path = "segment"
        /\ \A i \in HoldingArg : seg <= i
        /\ seg \in HoldingArg
        /\ out = Line(seg, arg)
        /\ \A k \in 1..(numPoints - 2) : NumEq(arg, Raw(k)) => seg = k - 1

\* C9 as amended: the same, the segment used for an input equal to an interior
\* knot raw[k] being some segment before k, and segment k-1 when the table is
\* as fitted and raw[k-1] < raw[k].
C9_FirstSegment ==
    (CalibrateReturned /\ Fitted /\ InRange) =>
        /\ HoldingArg # {}
        /\ path = "segment"
        /\ \A i \in HoldingArg : seg <= i
        /\ seg \in HoldingArg
        /\ out = Line(seg, arg)
        /\ \A k \in 1..(numPoints - 2) : NumEq(arg, Raw(k)) =>
               /\ seg < k
               /\ (~stale /\ Lt(Raw(k - 1), Raw(k))) => seg = k - 1

\* C9's case: the input equals the interior knot of a three-point table, both
\* segments hold it, their lines differ there, and the first was applied.
C9_Witness ==
    /\ CalibrateReturned
    /\ Fitted
    /\ numPoints = 3
    /\ NumEq(arg, Raw(1))
    /\ HoldingArg = {0, 1}
    /\ seg = 0
    /\ out = Line(0, arg)
    /\ Line(1, arg) # out

\* C10: a begin() that returns false leaves the slope array, the intercept
\* array, the table references, the count and the limit flag as they were; a
\* calibrator fitted before stays fitted, and its calibrate() never falls
\* back to the identity of the unfitted state.
C10_FailedBeginKeepsState ==
    [][/\ (op' = "begin" /\ status' = "ok" /\ ~ok') =>
              UNCHANGED <<_m, _b, heap, rawValues, calibrationValues, numPoints,
                          limitOutput>>
       /\ (Fitted /\ op' = "calibrate" /\ status' = "ok") =>
              (Fitted' /\ path' # "identity" /\ path' # "wild")]_vars

\* C10's case: a fitted calibrator whose table the caller has unsorted was
\* begun again, and begin() returned false with the earlier fit in place.
C10_Witness ==
    /\ BeginReturned
    /\ ~ok
    /\ Fitted
    /\ stale
    /\ HasInversion
    /\ Len(heap[_m[1]]) = numPoints - 1

====
